---- MODULE Spec2Model ----
(***************************************************************************)
(* Model of backend/server.py: the /ws/realtime relay handler              *)
(* (websocket_realtime with its two forwarding coroutines) and the         *)
(* /api/transcribe endpoint (transcribe_audio).                            *)
(*                                                                         *)
(* One relay session is modelled.  The handler's position is pc; the two   *)
(* coroutines started by asyncio.gather have their own positions.  The     *)
(* client and the upstream service are the environment: they send frames,  *)
(* disconnect and close on their own.                                      *)
(***************************************************************************)
EXTENDS Integers, Sequences, FiniteSets, TLC

\* ------------------------------------------------------------------ bounds
\* Frames each peer sends during one session.
MaxFrames == 2
\* Length of the transcription text returned by the speech-to-text call.
MaxText == 2

\* --------------------------------------------------------------- constants
\* server.py:165  if file_size < 1000
MinAudioBytes == 1000

VARIABLES
    \* configuration
    clientConfigured,  \* module-level openai_client is not None
    keyAvailable,      \* the handler's key lookup yields a non-empty key
    \* websocket_realtime
    pc,                \* position of the handler
    exc,               \* exception in flight in the handler
    outcome,           \* "running", "returned", "raised"
    openai_ws,         \* "None" or "conn": the local variable openai_ws
    connectAttempts,   \* number of websockets.connect calls
    connectFailure,    \* what websockets.connect raised, if it did
    clientCloses,      \* websocket.close calls, in order
    upstreamCloses,    \* openai_ws close calls (context exit and finally)
    \* client_to_openai
    c2oPc, c2oData, c2oEnd,
    \* openai_to_client
    o2cPc, o2cData, o2cEnd, o2cLog,
    \* the two peers
    clientState,       \* "open", "disconnected"
    upstreamPeer,      \* "none", "open", "closedOK", "closedErr"
    clientSent, clientRead, upstreamRecv,
    upstreamSent, upstreamRead, clientRecv,
    upstreamAccepting, \* the upstream connection takes a write now
    clientAccepting,   \* the client connection takes a write now
    \* transcribe_audio
    tPc, tSize, tApi, tText, tExc, tStatus, tBody

relayVars == <<pc, exc, outcome, openai_ws, connectAttempts, connectFailure,
               clientCloses,
               upstreamCloses, c2oPc, c2oData, c2oEnd, o2cPc, o2cData, o2cEnd,
               o2cLog, clientState, upstreamPeer, clientSent, clientRead,
               upstreamRecv, upstreamSent, upstreamRead, clientRecv,
               upstreamAccepting, clientAccepting>>
flowVars == <<upstreamAccepting, clientAccepting>>
configVars == <<clientConfigured, keyAvailable>>
transcribeVars == <<tPc, tSize, tApi, tText, tExc, tStatus, tBody>>
vars == <<configVars, relayVars, transcribeVars>>

\* ------------------------------------------------------------- exceptions
NoExc == [kind |-> "none", text |-> ""]
Raised(kind, text) == [kind |-> kind, text |-> text]
\* str(e)
Str(e) == e.text
\* `except Exception` catches everything but BaseException-only classes
\* (asyncio.CancelledError).
IsException(e) == e.kind \notin {"none", "CancelledError"}

\* Failures websockets.connect can raise.
ConnectErrors == {Raised("InvalidStatusCode", "server rejected WebSocket connection: HTTP 401"),
                  Raised("OSError", "Connect call failed")}

\* ----------------------------------------------------------------- frames
\* What a client can send: two text frames and a binary frame.
ClientFrames == {"c:hello", "c:audio", "c:binary"}
IsTextFrame(f) == f # "c:binary"

\* What the upstream can send: a JSON object with a type, a JSON object
\* without one, JSON that is not an object, and text that is not JSON.
UpstreamFrames == {"{type:error}", "{}", "[1]", "not json"}

\* json.loads(message), then msg_json.get('type', 'unknown')
ParseType(f) ==
    CASE f = "{type:error}"         -> [err |-> "none", type |-> "error"]
      [] f = "{}"                   -> [err |-> "none", type |-> "unknown"]
      [] f = "[1]"                  -> [err |-> "AttributeError", type |-> ""]
      [] OTHER                      -> [err |-> "JSONDecodeError", type |-> ""]

\* The inner `except Exception as parse_error` of openai_to_client.
ParseErrorCaughtMut(err) == err = "JSONDecodeError"
ParseErrorCaught(err) == TRUE

\* The severity of the log line the classification emits.
Severity(type) ==
    IF type = "error" THEN "error" ELSE "info"

\* ---------------------------------------------------------------- helpers
IsPrefix(s, t) == Len(s) <= Len(t) /\ \A i \in 1..Len(s) : s[i] = t[i]

\* The relay has closed the upstream connection.
UpstreamClosedByRelay == \E i \in 1..Len(upstreamCloses) : upstreamCloses[i].effective
\* The upstream connection can carry frames.
UpstreamLive == upstreamPeer = "open" /\ ~UpstreamClosedByRelay

\* websocket.close(code, reason): the outcomes of the call.  A second close
\* is refused by the framework; a close towards a client that is gone may
\* or may not raise.
ClientCloseOutcomes ==
    IF Len(clientCloses) > 0 THEN {FALSE}
    ELSE IF clientState = "disconnected" THEN {TRUE, FALSE}
    ELSE {TRUE}
ClientClose(code, reason, ok) ==
    clientCloses' = Append(clientCloses, [code |-> code, reason |-> reason, ok |-> ok])

\* openai_ws.close(): closes with the library's default code 1000; closing
\* a connection that is already closed does nothing.
UpstreamClose ==
    upstreamCloses' = Append(upstreamCloses,
        [code |-> 1000, effective |-> UpstreamLive])

\* `if not api_key` after the lookup.
KeyMissingMut == FALSE
KeyMissing == ~keyAvailable

\* The close the handler's `except Exception as e` sends to the client.
ExceptCloseMut(e) == [code |-> 1011, reason |-> "internal error"]
ExceptClose(e) == [code |-> 1011, reason |-> Str(e)]

\* await openai_ws.send(data): what the upstream has been sent afterwards.
UpstreamWriteMut(seq, data) == <<data>> \o seq
UpstreamWrite(seq, data) == Append(seq, data)

\* await websocket.send_text(message): what the client has been sent afterwards.
ClientWrite(seq, message) == Append(seq, message)

\* ------------------------------------------------------------------- Init
RelayIdle ==
    /\ pc = "accept"
    /\ exc = NoExc
    /\ outcome = "running"
    /\ openai_ws = "None"
    /\ connectAttempts = 0
    /\ connectFailure = NoExc
    /\ clientCloses = <<>>
    /\ upstreamCloses = <<>>
    /\ c2oPc = "idle" /\ c2oData = "" /\ c2oEnd = NoExc
    /\ o2cPc = "idle" /\ o2cData = "" /\ o2cEnd = NoExc /\ o2cLog = "none"
    /\ clientState = "open"
    /\ upstreamPeer = "none"
    /\ clientSent = <<>> /\ clientRead = 0 /\ upstreamRecv = <<>>
    /\ upstreamSent = <<>> /\ upstreamRead = 0 /\ clientRecv = <<>>
    /\ upstreamAccepting = TRUE /\ clientAccepting = TRUE

TranscribeIdle ==
    /\ tPc = "idle"
    /\ tSize = 0
    /\ tApi = [raises |-> FALSE, shape |-> "str", text |-> <<>>]
    /\ tText = <<>>
    /\ tExc = NoExc
    /\ tStatus = 0
    /\ tBody = <<>>

Init ==
    /\ clientConfigured \in BOOLEAN
    /\ keyAvailable \in BOOLEAN
    /\ RelayIdle
    /\ TranscribeIdle

\* ---------------------------------------------------- websocket_realtime
\* await websocket.accept()
Accept ==
    /\ pc = "accept"
    /\ pc' = "check_client"
    /\ UNCHANGED <<configVars, transcribeVars, flowVars, connectFailure, exc, outcome, openai_ws,
                   connectAttempts, clientCloses, upstreamCloses, c2oPc, c2oData,
                   c2oEnd, o2cPc, o2cData, o2cEnd, o2cLog, clientState,
                   upstreamPeer, clientSent, clientRead, upstreamRecv,
                   upstreamSent, upstreamRead, clientRecv>>

\* if not openai_client: close(1008); return      (outside the try)
CloseNoClient ==
    /\ pc = "check_client"
    /\ ~clientConfigured
    /\ \E ok \in ClientCloseOutcomes :
          /\ ClientClose(1008, "OpenAI API key not configured", ok)
          /\ outcome' = IF ok THEN "returned" ELSE "raised"
          /\ exc' = IF ok THEN NoExc ELSE Raised("RuntimeError", "close failed")
    /\ pc' = "done"
    /\ UNCHANGED <<configVars, transcribeVars, flowVars, connectFailure, openai_ws, connectAttempts,
                   upstreamCloses, c2oPc, c2oData, c2oEnd, o2cPc, o2cData, o2cEnd,
                   o2cLog, clientState, upstreamPeer, clientSent, clientRead,
                   upstreamRecv, upstreamSent, upstreamRead, clientRecv>>

\* openai_ws = None; the key lookup; if not api_key
ResolveKey ==
    /\ pc = "check_client"
    /\ clientConfigured
    /\ pc' = IF KeyMissing THEN "close_nokey" ELSE "connect"
    /\ UNCHANGED <<configVars, transcribeVars, flowVars, connectFailure, exc, outcome, openai_ws,
                   connectAttempts, clientCloses, upstreamCloses, c2oPc, c2oData,
                   c2oEnd, o2cPc, o2cData, o2cEnd, o2cLog, clientState,
                   upstreamPeer, clientSent, clientRead, upstreamRecv,
                   upstreamSent, upstreamRead, clientRecv>>

\* await websocket.close(code=1008, reason="API key not available"); return
CloseNoKey ==
    /\ pc = "close_nokey"
    /\ \E ok \in ClientCloseOutcomes :
          /\ ClientClose(1008, "API key not available", ok)
          /\ exc' = IF ok THEN NoExc ELSE Raised("RuntimeError", "close failed")
          /\ pc' = IF ok THEN "finally" ELSE "except"
    /\ UNCHANGED <<configVars, transcribeVars, flowVars, connectFailure, outcome, openai_ws,
                   connectAttempts, upstreamCloses, c2oPc, c2oData, c2oEnd, o2cPc,
                   o2cData, o2cEnd, o2cLog, clientState, upstreamPeer, clientSent,
                   clientRead, upstreamRecv, upstreamSent, upstreamRead,
                   clientRecv>>

\* async with websockets.connect(...) as openai_ws: succeeds; gather starts
\* both coroutines.
ConnectOK ==
    /\ pc = "connect"
    /\ connectAttempts' = connectAttempts + 1
    /\ openai_ws' = "conn"
    /\ upstreamPeer' = "open"
    /\ pc' = "relay"
    /\ c2oPc' = "recv"
    /\ o2cPc' = "recv"
    /\ UNCHANGED <<configVars, transcribeVars, flowVars, connectFailure, exc, outcome, clientCloses,
                   upstreamCloses, c2oData, c2oEnd, o2cData, o2cEnd, o2cLog,
                   clientState, clientSent, clientRead, upstreamRecv,
                   upstreamSent, upstreamRead, clientRecv>>

\* A failed connect that is tried again.
ConnectFailRetryMut ==
    /\ pc = "connect"
    /\ connectAttempts' = connectAttempts + 1
    /\ \E e \in ConnectErrors : connectFailure' = e
    /\ UNCHANGED <<configVars, transcribeVars, flowVars, pc, exc, outcome, openai_ws,
                   clientCloses, upstreamCloses, c2oPc, c2oData, c2oEnd, o2cPc,
                   o2cData, o2cEnd, o2cLog, clientState, upstreamPeer, clientSent,
                   clientRead, upstreamRecv, upstreamSent, upstreamRead,
                   clientRecv>>

\* A failed connect that is logged and followed by the forwarding anyway.
ConnectFailForwardsMut ==
    /\ pc = "connect"
    /\ connectAttempts' = connectAttempts + 1
    /\ \E e \in ConnectErrors : connectFailure' = e
    /\ pc' = "relay"
    /\ c2oPc' = "recv"
    /\ o2cPc' = "recv"
    /\ UNCHANGED <<configVars, transcribeVars, flowVars, exc, outcome, openai_ws,
                   clientCloses, upstreamCloses, c2oData, c2oEnd, o2cData, o2cEnd,
                   o2cLog, clientState, upstreamPeer, clientSent, clientRead,
                   upstreamRecv, upstreamSent, upstreamRead, clientRecv>>

\* websockets.connect raises.
ConnectFail ==
    /\ pc = "connect"
    /\ connectAttempts' = connectAttempts + 1
    /\ \E e \in ConnectErrors : exc' = e /\ connectFailure' = e
    /\ pc' = "except"
    /\ UNCHANGED <<configVars, transcribeVars, flowVars, outcome, openai_ws, clientCloses,
                   upstreamCloses, c2oPc, c2oData, c2oEnd, o2cPc, o2cData, o2cEnd,
                   o2cLog, clientState, upstreamPeer, clientSent, clientRead,
                   upstreamRecv, upstreamSent, upstreamRead, clientRecv>>

\* A wait that gives up on its own while the coroutines are still running
\* (an idle timeout around the gather), cancelling them.
GatherTimeoutMut ==
    /\ pc = "relay"
    /\ pc' = "exit_ctx"
    /\ c2oPc' = IF c2oPc = "done" THEN "done" ELSE "cancelled"
    /\ o2cPc' = IF o2cPc = "done" THEN "done" ELSE "cancelled"
    /\ UNCHANGED <<configVars, transcribeVars, flowVars, connectFailure, exc, outcome, openai_ws,
                   connectAttempts, clientCloses, upstreamCloses, c2oData,
                   c2oEnd, o2cData, o2cEnd, o2cLog, clientState,
                   upstreamPeer, clientSent, clientRead, upstreamRecv,
                   upstreamSent, upstreamRead, clientRecv>>

\* A wait that returns when the first coroutine has returned and leaves
\* the other one running.
GatherFirstMut ==
    /\ pc = "relay"
    /\ c2oPc = "done" \/ o2cPc = "done"
    /\ pc' = "exit_ctx"
    /\ UNCHANGED <<configVars, transcribeVars, flowVars, connectFailure, exc, outcome, openai_ws,
                   connectAttempts, clientCloses, upstreamCloses, c2oPc, c2oData,
                   c2oEnd, o2cPc, o2cData, o2cEnd, o2cLog, clientState,
                   upstreamPeer, clientSent, clientRead, upstreamRecv,
                   upstreamSent, upstreamRead, clientRecv>>

\* await asyncio.gather(...) returns: both coroutines have returned.
GatherDone ==
    /\ pc = "relay"
    /\ c2oPc = "done"
    /\ o2cPc = "done"
    /\ pc' = "exit_ctx"
    /\ UNCHANGED <<configVars, transcribeVars, flowVars, connectFailure, exc, outcome, openai_ws,
                   connectAttempts, clientCloses, upstreamCloses, c2oPc, c2oData,
                   c2oEnd, o2cPc, o2cData, o2cEnd, o2cLog, clientState,
                   upstreamPeer, clientSent, clientRead, upstreamRecv,
                   upstreamSent, upstreamRead, clientRecv>>

\* The handler's task is cancelled while it awaits the connect or the gather
\* (server shutdown): CancelledError is raised there, and gather cancels the
\* coroutines that are still running.
Cancel ==
    /\ pc \in {"connect", "relay"}
    /\ exc' = Raised("CancelledError", "")
    /\ IF pc = "connect"
       THEN /\ connectAttempts' = connectAttempts + 1
            /\ pc' = "finally"
            /\ UNCHANGED <<c2oPc, o2cPc>>
       ELSE /\ pc' = "exit_ctx"
            /\ c2oPc' = IF c2oPc = "done" THEN "done" ELSE "cancelled"
            /\ o2cPc' = IF o2cPc = "done" THEN "done" ELSE "cancelled"
            /\ UNCHANGED connectAttempts
    /\ UNCHANGED <<configVars, transcribeVars, flowVars, connectFailure, outcome, openai_ws, clientCloses,
                   upstreamCloses, c2oData, c2oEnd, o2cData, o2cEnd, o2cLog,
                   clientState, upstreamPeer, clientSent, clientRead,
                   upstreamRecv, upstreamSent, upstreamRead, clientRecv>>

\* Leaving the `async with` block: the context manager closes openai_ws.
ExitCtx ==
    /\ pc = "exit_ctx"
    /\ UpstreamClose
    /\ pc' = IF IsException(exc) THEN "except" ELSE "finally"
    /\ UNCHANGED <<configVars, transcribeVars, flowVars, connectFailure, exc, outcome, openai_ws,
                   connectAttempts, clientCloses, c2oPc, c2oData, c2oEnd, o2cPc,
                   o2cData, o2cEnd, o2cLog, clientState, upstreamPeer, clientSent,
                   clientRead, upstreamRecv, upstreamSent, upstreamRead,
                   clientRecv>>

\* except Exception as e: try: close(code=1011, reason=str(e)) except: pass
Except ==
    /\ pc = "except"
    /\ \E ok \in ClientCloseOutcomes :
          ClientClose(ExceptClose(exc).code, ExceptClose(exc).reason, ok)
    /\ exc' = NoExc
    /\ pc' = "finally"
    /\ UNCHANGED <<configVars, transcribeVars, flowVars, connectFailure, outcome, openai_ws,
                   connectAttempts, upstreamCloses, c2oPc, c2oData, c2oEnd, o2cPc,
                   o2cData, o2cEnd, o2cLog, clientState, upstreamPeer, clientSent,
                   clientRead, upstreamRecv, upstreamSent, upstreamRead,
                   clientRecv>>

\* finally: if openai_ws: try: await openai_ws.close() except: pass
Finally ==
    /\ pc = "finally"
    /\ IF openai_ws # "None" THEN UpstreamClose ELSE UNCHANGED upstreamCloses
    /\ outcome' = IF exc = NoExc THEN "returned" ELSE "raised"
    /\ pc' = "done"
    /\ UNCHANGED <<configVars, transcribeVars, flowVars, connectFailure, exc, openai_ws, connectAttempts,
                   clientCloses, c2oPc, c2oData, c2oEnd, o2cPc, o2cData, o2cEnd,
                   o2cLog, clientState, upstreamPeer, clientSent, clientRead,
                   upstreamRecv, upstreamSent, upstreamRead, clientRecv>>

\* ------------------------------------------------------- client_to_openai
handlerVars == <<pc, exc, outcome, openai_ws, connectAttempts, connectFailure,
                 clientCloses,
                 upstreamCloses>>
c2oVars == <<c2oPc, c2oData, c2oEnd>>
o2cVars == <<o2cPc, o2cData, o2cEnd, o2cLog>>

\* A coroutine suspended in a write its destination does not take yet.
C2OWriteBlocked == c2oPc = "send" /\ UpstreamLive /\ ~upstreamAccepting
O2CWriteBlocked == o2cPc = "send" /\ clientState = "open" /\ ~clientAccepting

\* asyncio.gather runs the two coroutines as separate tasks: one can run
\* whenever its own await can complete, wherever the other is suspended.
RunnableSerialMut(otherBlocked) == ~otherBlocked
Runnable(otherBlocked) == TRUE

\* data = await websocket.receive_text(): a text frame is returned; a
\* binary frame has no text and the call raises; once the client is gone
\* and its frames are consumed, WebSocketDisconnect is raised.  Both raises
\* are caught by the coroutine's handlers, which log and return.
C2ORecv ==
    /\ pc = "relay"
    /\ c2oPc = "recv"
    /\ Runnable(O2CWriteBlocked)
    /\ IF clientRead < Len(clientSent)
       THEN /\ clientRead' = clientRead + 1
            /\ IF IsTextFrame(clientSent[clientRead + 1])
               THEN /\ c2oData' = clientSent[clientRead + 1]
                    /\ c2oPc' = "send"
                    /\ UNCHANGED c2oEnd
               ELSE /\ c2oPc' = "done"
                    /\ c2oEnd' = Raised("KeyError", "'text'")
                    /\ UNCHANGED c2oData
       ELSE /\ clientState = "disconnected"
            /\ c2oPc' = "done"
            /\ c2oEnd' = Raised("WebSocketDisconnect", "1000")
            /\ UNCHANGED <<clientRead, c2oData>>
    /\ UNCHANGED <<configVars, transcribeVars, flowVars, handlerVars, o2cVars, clientState,
                   upstreamPeer, clientSent, upstreamRecv, upstreamSent,
                   upstreamRead, clientRecv>>

\* await openai_ws.send(data): waits while the upstream does not take the
\* write; raises ConnectionClosed once the upstream connection is closed;
\* `except Exception` logs it and the coroutine returns.
C2OSend ==
    /\ pc = "relay"
    /\ c2oPc = "send"
    /\ Runnable(O2CWriteBlocked)
    /\ ~C2OWriteBlocked
    /\ IF UpstreamLive
       THEN /\ upstreamRecv' = UpstreamWrite(upstreamRecv, c2oData)
            /\ c2oPc' = "recv"
            /\ UNCHANGED c2oEnd
       ELSE /\ c2oPc' = "done"
            /\ c2oEnd' = Raised("ConnectionClosed", "upstream connection is closed")
            /\ UNCHANGED upstreamRecv
    /\ c2oData' = ""
    /\ UNCHANGED <<configVars, transcribeVars, flowVars, handlerVars, o2cVars,
                   clientState, upstreamPeer, clientSent, clientRead,
                   upstreamSent, upstreamRead, clientRecv>>

\* ------------------------------------------------------- openai_to_client
\* async for message in openai_ws, then the classification block.  The
\* iteration ends normally when the upstream closed with 1000 and raises
\* ConnectionClosedError when it closed abnormally.  A classification
\* failure the inner handler does not catch reaches the outer handler.
O2CRecv ==
    /\ pc = "relay"
    /\ o2cPc = "recv"
    /\ Runnable(C2OWriteBlocked)
    /\ IF upstreamRead < Len(upstreamSent)
       THEN LET message == upstreamSent[upstreamRead + 1]
                parsed == ParseType(message)
            IN  /\ upstreamRead' = upstreamRead + 1
                /\ IF parsed.err = "none"
                   THEN /\ o2cLog' = Severity(parsed.type)
                        /\ o2cData' = message
                        /\ o2cPc' = "send"
                        /\ UNCHANGED o2cEnd
                   ELSE IF ParseErrorCaught(parsed.err)
                   THEN /\ o2cLog' = "debug"
                        /\ o2cData' = message
                        /\ o2cPc' = "send"
                        /\ UNCHANGED o2cEnd
                   ELSE /\ o2cPc' = "done"
                        /\ o2cEnd' = Raised(parsed.err, "classification failed")
                        /\ UNCHANGED <<o2cLog, o2cData>>
       ELSE /\ upstreamPeer \in {"closedOK", "closedErr"}
            /\ o2cPc' = "done"
            /\ o2cEnd' = IF upstreamPeer = "closedOK"
                         THEN NoExc
                         ELSE Raised("ConnectionClosedError", "no close frame received")
            /\ UNCHANGED <<upstreamRead, o2cData, o2cLog>>
    /\ UNCHANGED <<configVars, transcribeVars, flowVars, handlerVars, c2oVars, clientState,
                   upstreamPeer, clientSent, clientRead, upstreamRecv,
                   upstreamSent, clientRecv>>

\* await websocket.send_text(message): waits while the client does not take
\* the write; towards a client that is gone the send either raises (the
\* coroutine logs and returns) or is dropped.
O2CSend ==
    /\ pc = "relay"
    /\ o2cPc = "send"
    /\ Runnable(C2OWriteBlocked)
    /\ ~O2CWriteBlocked
    /\ IF clientState = "open"
       THEN /\ clientRecv' = ClientWrite(clientRecv, o2cData)
            /\ o2cPc' = "recv"
            /\ UNCHANGED o2cEnd
       ELSE /\ UNCHANGED clientRecv
            /\ \/ /\ o2cPc' = "done"
                  /\ o2cEnd' = Raised("RuntimeError", "client connection is closed")
               \/ /\ o2cPc' = "recv"
                  /\ UNCHANGED o2cEnd
    /\ o2cData' = ""
    /\ UNCHANGED <<configVars, transcribeVars, flowVars, handlerVars, c2oVars,
                   o2cLog, clientState, upstreamPeer, clientSent, clientRead,
                   upstreamRecv, upstreamSent, upstreamRead>>

\* ------------------------------------------------------------ environment
\* The relay has closed the client connection.
ClientClosedByRelay == \E i \in 1..Len(clientCloses) : clientCloses[i].ok

\* The client sends a frame; frames sent once the forwarding has ended are
\* never read and are left out.
ClientSend ==
    /\ pc \in {"check_client", "close_nokey", "connect", "relay"}
    /\ clientState = "open"
    /\ ~ClientClosedByRelay
    /\ Len(clientSent) < MaxFrames
    /\ \E f \in ClientFrames : clientSent' = Append(clientSent, f)
    /\ UNCHANGED <<configVars, transcribeVars, flowVars, handlerVars, c2oVars, o2cVars,
                   clientState, upstreamPeer, clientRead, upstreamRecv,
                   upstreamSent, upstreamRead, clientRecv>>

ClientDisconnect ==
    /\ pc # "done"
    /\ clientState = "open"
    /\ ~ClientClosedByRelay
    /\ clientState' = "disconnected"
    /\ UNCHANGED <<configVars, transcribeVars, flowVars, handlerVars, c2oVars, o2cVars,
                   upstreamPeer, clientSent, clientRead, upstreamRecv,
                   upstreamSent, upstreamRead, clientRecv>>

UpstreamSend ==
    /\ pc = "relay"
    /\ UpstreamLive
    /\ Len(upstreamSent) < MaxFrames
    /\ \E f \in UpstreamFrames : upstreamSent' = Append(upstreamSent, f)
    /\ UNCHANGED <<configVars, transcribeVars, flowVars, handlerVars, c2oVars, o2cVars,
                   clientState, upstreamPeer, clientSent, clientRead,
                   upstreamRecv, upstreamRead, clientRecv>>

\* The upstream ends the connection: cleanly with code 1000, or abnormally.
UpstreamPeerClose ==
    /\ pc = "relay"
    /\ UpstreamLive
    /\ \E s \in {"closedOK", "closedErr"} : upstreamPeer' = s
    /\ UNCHANGED <<configVars, transcribeVars, flowVars, handlerVars, c2oVars, o2cVars,
                   clientState, clientSent, clientRead, upstreamRecv,
                   upstreamSent, upstreamRead, clientRecv>>

\* A peer stops taking writes (its receive buffer is full), and takes them
\* again.
UpstreamStall ==
    /\ pc = "relay"
    /\ UpstreamLive
    /\ upstreamAccepting
    /\ upstreamAccepting' = FALSE
    /\ UNCHANGED <<configVars, transcribeVars, handlerVars, c2oVars, o2cVars,
                   clientState, upstreamPeer, clientSent, clientRead,
                   upstreamRecv, upstreamSent, upstreamRead, clientRecv,
                   clientAccepting>>

UpstreamDrain ==
    /\ ~upstreamAccepting
    /\ upstreamAccepting' = TRUE
    /\ UNCHANGED <<configVars, transcribeVars, handlerVars, c2oVars, o2cVars,
                   clientState, upstreamPeer, clientSent, clientRead,
                   upstreamRecv, upstreamSent, upstreamRead, clientRecv,
                   clientAccepting>>

ClientStall ==
    /\ pc = "relay"
    /\ clientState = "open"
    /\ clientAccepting
    /\ clientAccepting' = FALSE
    /\ UNCHANGED <<configVars, transcribeVars, handlerVars, c2oVars, o2cVars,
                   clientState, upstreamPeer, clientSent, clientRead,
                   upstreamRecv, upstreamSent, upstreamRead, clientRecv,
                   upstreamAccepting>>

ClientDrain ==
    /\ ~clientAccepting
    /\ clientAccepting' = TRUE
    /\ UNCHANGED <<configVars, transcribeVars, handlerVars, c2oVars, o2cVars,
                   clientState, upstreamPeer, clientSent, clientRead,
                   upstreamRecv, upstreamSent, upstreamRead, clientRecv,
                   upstreamAccepting>>

\* ------------------------------------------------------------------- Spec
Next ==
    \/ Accept
    \/ CloseNoClient
    \/ ResolveKey
    \/ CloseNoKey
    \/ ConnectOK
    \/ ConnectFail
    \/ GatherDone
    \/ Cancel
    \/ ExitCtx
    \/ Except
    \/ Finally
    \/ C2ORecv
    \/ C2OSend
    \/ O2CRecv
    \/ O2CSend
    \/ ClientSend
    \/ ClientDisconnect
    \/ UpstreamSend
    \/ UpstreamPeerClose

Spec == Init /\ [][Next]_vars

\* A session with its credential, whose connect succeeds and whose peers
\* stall and drain at will: the setup, the two coroutines and the peers,
\* up to the return of the gather.
InitBP ==
    /\ clientConfigured = TRUE
    /\ keyAvailable = TRUE
    /\ RelayIdle
    /\ TranscribeIdle

NextBP ==
    \/ Accept
    \/ ResolveKey
    \/ ConnectOK
    \/ C2ORecv
    \/ C2OSend
    \/ O2CRecv
    \/ O2CSend
    \/ ClientSend
    \/ UpstreamSend
    \/ ClientDisconnect
    \/ UpstreamPeerClose
    \/ UpstreamStall
    \/ UpstreamDrain
    \/ ClientStall
    \/ ClientDrain

SpecBP == InitBP /\ [][NextBP]_vars

\* ------------------------------------------------------- transcribe_audio
\* Characters of a transcription: whitespace and a letter.
Chars == {" ", "a"}
Texts == UNION {[1..n -> Chars] : n \in 0..MaxText}

\* What openai_client.audio.transcriptions.create does: it raises, or it
\* returns the text as a str or as an object with a .text attribute.
ApiResults ==
    {[raises |-> TRUE, shape |-> "str", text |-> <<>>]}
    \cup {[raises |-> FALSE, shape |-> sh, text |-> t] : sh \in {"str", "obj"}, t \in Texts}

\* Sizes of the uploaded payload, around the threshold.
FileSizes == {0, MinAudioBytes - 1, MinAudioBytes, MinAudioBytes + 1}

\* str.strip()
RECURSIVE LStrip(_)
LStrip(t) == IF Len(t) > 0 /\ Head(t) = " " THEN LStrip(Tail(t)) ELSE t
RECURSIVE RStrip(_)
RStrip(t) == IF Len(t) > 0 /\ t[Len(t)] = " " THEN RStrip(SubSeq(t, 1, Len(t) - 1)) ELSE t
Strip(t) == RStrip(LStrip(t))

\* An HTTPException with a status code.
HttpError(status, detail) == [kind |-> "HTTPException", text |-> detail, status |-> status]

\* `except Exception as e` of transcribe_audio: HTTPException is an
\* Exception, so the handler catches the endpoint's own 400s as well.
TranscribeCatches(e) == e.kind # "none"

InitT ==
    /\ clientConfigured \in BOOLEAN
    /\ keyAvailable = TRUE
    /\ RelayIdle
    /\ tPc = "start"
    /\ tSize \in FileSizes
    /\ tApi \in ApiResults
    /\ tText = <<>>
    /\ tExc = NoExc
    /\ tStatus = 0
    /\ tBody = <<>>

\* if not openai_client: raise HTTPException(status_code=500, ...)
TCheckClient ==
    /\ tPc = "start"
    /\ IF clientConfigured
       THEN /\ tPc' = "validate"
            /\ UNCHANGED <<tStatus, tBody>>
       ELSE /\ tPc' = "done"
            /\ tStatus' = 500
            /\ tBody' = <<"not configured">>
    /\ UNCHANGED <<configVars, relayVars, tSize, tApi, tText, tExc>>

\* audio_data = await file.read(); if file_size < 1000: raise HTTPException(400)
TValidate ==
    /\ tPc = "validate"
    /\ IF tSize < MinAudioBytes
       THEN /\ tExc' = HttpError(400, "too small")
            /\ tPc' = "except"
       ELSE /\ tPc' = "call"
            /\ UNCHANGED tExc
    /\ UNCHANGED <<configVars, relayVars, tSize, tApi, tText, tStatus, tBody>>

\* The transcription call, the strip of its result and the empty check.
TCall ==
    /\ tPc = "call"
    /\ IF tApi.raises
       THEN /\ tExc' = Raised("APIError", "api error")
            /\ tPc' = "except"
            /\ UNCHANGED tText
       ELSE /\ tText' = Strip(tApi.text)
            /\ IF Len(Strip(tApi.text)) < 1
               THEN /\ tExc' = HttpError(400, "no speech")
                    /\ tPc' = "except"
               ELSE /\ tPc' = "return"
                    /\ UNCHANGED tExc
    /\ UNCHANGED <<configVars, relayVars, tSize, tApi, tStatus, tBody>>

\* return {"transcription": transcription_text}
TReturn ==
    /\ tPc = "return"
    /\ tStatus' = 200
    /\ tBody' = tText
    /\ tPc' = "done"
    /\ UNCHANGED <<configVars, relayVars, tSize, tApi, tText, tExc>>

\* except Exception as e: raise HTTPException(status_code=500, detail=str(e))
TExcept ==
    /\ tPc = "except"
    /\ IF TranscribeCatches(tExc)
       THEN /\ tStatus' = 500
            /\ tBody' = <<Str(tExc)>>
       ELSE /\ tStatus' = tExc.status
            /\ tBody' = <<Str(tExc)>>
    /\ tPc' = "done"
    /\ UNCHANGED <<configVars, relayVars, tSize, tApi, tText, tExc>>

NextT ==
    \/ TCheckClient
    \/ TValidate
    \/ TCall
    \/ TReturn
    \/ TExcept

SpecT == InitT /\ [][NextT]_vars

\* ----------------------------------------------------------------- claims
\* No credential is configured for the session: the provider client is
\* absent, or the handler's key lookup resolves nothing.
CredentialMissing == ~clientConfigured \/ ~keyAvailable

\* A forwarding coroutine ended on a true error, not on a peer's clean close.
TrueError(e) == e.kind \notin {"none", "WebSocketDisconnect"}

\* C1 (credential gating): when no credential is configured, the handler
\* never attempts an upstream connect, no forwarding starts, every close the
\* client receives carries code 1008, and once the handler is past its close
\* call the first close it issued is the 1008 one (delivered whenever the
\* client is still connected).
C1_CredentialGating ==
    CredentialMissing =>
        /\ connectAttempts = 0
        /\ openai_ws = "None"
        /\ upstreamPeer = "none"
        /\ \A i \in 1..Len(clientCloses) : clientCloses[i].ok => clientCloses[i].code = 1008
        /\ pc \in {"except", "finally", "done"} =>
              /\ Len(clientCloses) >= 1
              /\ clientCloses[1].code = 1008
              /\ clientState = "open" => clientCloses[1].ok

\* The key lookup fails with the provider client present, and the client
\* has been closed with 1008.
C1_Witness ==
    /\ clientConfigured
    /\ ~keyAvailable
    /\ pc = "done"
    /\ clientCloses = <<[code |-> 1008, reason |-> "API key not available", ok |-> TRUE]>>
    /\ connectAttempts = 0

\* C2 (connect failure mapping): when the upstream connect raises, the one
\* close the handler issues on the client has code 1011 and the failure's
\* text as reason (delivered whenever the client is still connected), the
\* handler returns, and no frame is ever read from or written to either
\* connection.
C2_ConnectFailureMapping ==
    connectFailure # NoExc =>
        /\ ~CredentialMissing
        /\ clientRead = 0 /\ upstreamRead = 0
        /\ upstreamRecv = <<>> /\ clientRecv = <<>>
        /\ c2oPc = "idle" /\ o2cPc = "idle"
        /\ openai_ws = "None"
        /\ pc \in {"except", "finally", "done"}
        /\ pc \in {"finally", "done"} =>
              /\ Len(clientCloses) = 1
              /\ clientCloses[1].code = 1011
              /\ clientCloses[1].reason = connectFailure.text
              /\ clientState = "open" => clientCloses[1].ok
        /\ pc = "done" => outcome = "returned"

\* The connect failed after the client had already sent a frame; the client
\* has been closed with 1011 and that frame was never read.
C2_Witness ==
    /\ connectFailure \in ConnectErrors
    /\ pc = "done"
    /\ Len(clientCloses) = 1
    /\ clientCloses[1].ok
    /\ clientCloses[1].reason = "Connect call failed"
    /\ Len(clientSent) > 0

\* C3 (order preservation, no mutation): what the relay has written to the
\* upstream is a prefix of what the client sent, what it has written to the
\* client is a prefix of what the upstream sent, and a frame in flight is
\* the last one read from its source.
C3_OrderPreserved ==
    /\ IsPrefix(upstreamRecv, clientSent)
    /\ IsPrefix(clientRecv, upstreamSent)
    /\ Len(upstreamRecv) <= clientRead
    /\ Len(clientRecv) <= upstreamRead
    /\ c2oPc = "send" => c2oData = clientSent[clientRead] /\ Len(upstreamRecv) = clientRead - 1
    /\ o2cPc = "send" => o2cData = upstreamSent[upstreamRead]

\* Two different frames have been relayed in each direction.
C3_Witness ==
    /\ Len(upstreamRecv) = 2
    /\ upstreamRecv[1] # upstreamRecv[2]
    /\ Len(clientRecv) = 2
    /\ clientRecv[1] # clientRecv[2]

\* C4 (mirrored close), as a final result: when the handler has returned
\* from a session whose upstream closed cleanly with code 1000 and whose
\* client is still connected, the relay has closed the client with code
\* 1000 and never with 1011.
C4_MirroredClose ==
    (pc = "done" /\ outcome = "returned" /\ upstreamPeer = "closedOK" /\ clientState = "open") =>
        /\ \E i \in 1..Len(clientCloses) : clientCloses[i].code = 1000 /\ clientCloses[i].ok
        /\ \A i \in 1..Len(clientCloses) : clientCloses[i].code # 1011

\* C5 (mid-session failure mapping), as a final result: when the handler
\* has returned from a session in which a forwarding coroutine ended on a
\* true error, a connection has been closed with code 1011 and that error's
\* text as reason.
C5_MidSessionFailure ==
    (pc = "done" /\ outcome = "returned" /\ (TrueError(c2oEnd) \/ TrueError(o2cEnd))) =>
        \/ \E i \in 1..Len(clientCloses) :
              /\ clientCloses[i].code = 1011
              /\ clientCloses[i].reason \in {c2oEnd.text, o2cEnd.text}
        \/ \E i \in 1..Len(upstreamCloses) : upstreamCloses[i].code = 1011

\* C6 (teardown completeness), on the exit paths where the handler returns:
\* by then the handler has closed the client connection, and the upstream
\* connection if it opened one.
C6_TeardownComplete ==
    (pc = "done" /\ outcome = "returned") =>
        /\ Len(clientCloses) >= 1
        /\ openai_ws # "None" => Len(upstreamCloses) >= 1

\* C7 (single teardown): when both forwarding coroutines have terminated
\* and the handler has returned, each connection has been closed by the
\* relay, at most one close per connection took effect, and a repeated
\* close raised nothing.
C7_SingleTeardown ==
    (pc = "done" /\ c2oPc = "done" /\ o2cPc = "done") =>
        /\ Len(upstreamCloses) >= 1
        /\ Cardinality({i \in 1..Len(upstreamCloses) : upstreamCloses[i].effective}) <= 1
        /\ Cardinality({i \in 1..Len(clientCloses) : clientCloses[i].ok}) = 1
        /\ outcome = "returned"

\* C8 (classification resilience): the upstream-to-client coroutine never
\* ends on a classification failure, the frame it holds for writing is the
\* frame it read whatever the classification made of it, and while the
\* client is connected every frame read has been written to the client or
\* is the one in flight.
C8_ClassificationResilience ==
    /\ o2cEnd.kind \notin {"AttributeError", "JSONDecodeError"}
    /\ o2cPc = "send" => o2cData = upstreamSent[upstreamRead]
    /\ clientState = "open" =>
          /\ Len(clientRecv) + (IF o2cData # "" THEN 1 ELSE 0) = upstreamRead
          /\ clientRecv = SubSeq(upstreamSent, 1, Len(clientRecv))

\* A non-JSON frame and a JSON non-object have both reached the client, and
\* the coroutine is still reading.
C8_Witness ==
    /\ clientRecv = <<"not json", "[1]">>
    /\ o2cPc = "recv"
    /\ o2cLog = "debug"

\* C9 (audio-upload error outcome): with the provider client present, a
\* payload under 1000 bytes or an empty transcription ends in HTTP 400, and
\* a transcription with text ends in HTTP 200 carrying the stripped text.
C9_AudioUploadOutcome ==
    (tPc = "done" /\ clientConfigured) =>
        IF tSize < MinAudioBytes \/ (~tApi.raises /\ Strip(tApi.text) = <<>>)
        THEN tStatus = 400
        ELSE ~tApi.raises => (tStatus = 200 /\ tBody = Strip(tApi.text))

\* C10 (prompt termination): once either forwarding coroutine has
\* terminated the relay stops relaying: no further frame is read from or
\* written to either connection.
C10_PromptTermination ==
    [][(pc = "relay" /\ (c2oPc = "done" \/ o2cPc = "done")) =>
          /\ upstreamRecv' = upstreamRecv
          /\ clientRecv' = clientRecv
          /\ clientRead' = clientRead
          /\ upstreamRead' = upstreamRead]_vars

\* The session state the handler's position stands for.
Phase(p) ==
    CASE p \in {"accept", "check_client", "close_nokey", "connect"} -> "Connecting"
      [] p = "relay"                                                -> "Relaying"
      [] p \in {"exit_ctx", "except", "finally"}                    -> "Closing"
      [] OTHER                                                      -> "Closed"

\* C11 (session state machine): every step keeps the session's state or
\* moves it along Connecting -> Relaying -> Closing -> Closed; Connecting
\* moves to Closing or Closed directly only when the credential is missing
\* or the connect did not yield a connection (it raised, or was cancelled);
\* Relaying is entered only from Connecting, so the session terminates
\* once; nothing changes once Closed; and at most one upstream connect is
\* ever made.
C11_StateMachine ==
    [][/\ <<Phase(pc), Phase(pc')>> \in
            {<<"Connecting", "Connecting">>, <<"Connecting", "Relaying">>,
             <<"Connecting", "Closing">>, <<"Connecting", "Closed">>,
             <<"Relaying", "Relaying">>, <<"Relaying", "Closing">>,
             <<"Closing", "Closing">>, <<"Closing", "Closed">>}
       /\ (Phase(pc) = "Connecting" /\ Phase(pc') \in {"Closing", "Closed"}) =>
             (CredentialMissing \/ (openai_ws' = "None" /\ upstreamPeer' = "none"))
       /\ (Phase(pc') = "Relaying" /\ Phase(pc) # "Relaying") =>
             (openai_ws' = "conn" /\ connectAttempts = 0)
       /\ connectAttempts' <= 1
       /\ Phase(pc) = "Closed" => vars' = vars]_vars

\* A session that went through relaying, closing and is closed.
C11_Witness ==
    /\ pc = "done"
    /\ outcome = "returned"
    /\ c2oPc = "done"
    /\ o2cPc = "done"
    /\ Len(upstreamCloses) = 2

\* C12 (setup before forwarding): a forwarding coroutine has started, or a
\* frame has been read from the client or the upstream, only if the
\* credential was resolved and the one upstream connect succeeded; when the
\* credential is missing or the connect failed, both coroutines stay
\* unstarted and nothing is read or written.
C12_SetupBeforeForwarding ==
    /\ (c2oPc # "idle" \/ o2cPc # "idle" \/ clientRead > 0 \/ upstreamRead > 0) =>
          /\ ~CredentialMissing
          /\ connectAttempts = 1
          /\ connectFailure = NoExc
          /\ openai_ws = "conn"
          /\ Phase(pc) # "Connecting"
    /\ (CredentialMissing \/ connectFailure # NoExc \/ Phase(pc) = "Connecting") =>
          /\ c2oPc = "idle" /\ o2cPc = "idle"
          /\ clientRead = 0 /\ upstreamRead = 0
          /\ upstreamRecv = <<>> /\ clientRecv = <<>>

\* After the one successful connect both coroutines run and the first
\* client frame has been read.
C12_Witness ==
    /\ pc = "relay"
    /\ connectAttempts = 1
    /\ c2oPc = "send"
    /\ clientRead = 1
    /\ o2cPc = "recv"

\* C13 (path termination causes): the client-to-upstream coroutine has
\* terminated only on a client disconnect or a failed write to the
\* upstream, and the upstream-to-client coroutine only on an upstream
\* disconnect or a failed write to the client; no frame received from a
\* connected peer terminates the coroutine that read it.
C13_TerminationCauses ==
    /\ c2oPc = "done" => c2oEnd.kind \in {"WebSocketDisconnect", "ConnectionClosed"}
    /\ o2cPc = "done" =>
          \/ o2cEnd = NoExc /\ upstreamPeer = "closedOK"
          \/ o2cEnd.kind = "ConnectionClosedError" /\ upstreamPeer = "closedErr"
          \/ o2cEnd.kind = "RuntimeError" /\ clientState = "disconnected"

\* The relay has issued a close on a connection or cancelled a coroutine.
RelayClosedOrCancelled ==
    \/ Len(upstreamCloses) > 0
    \/ Len(clientCloses) > 0
    \/ c2oPc = "cancelled"
    \/ o2cPc = "cancelled"

\* C14 (idle tolerance): in an established session whose handler has not
\* been cancelled from outside, while both peers are connected and neither
\* coroutine has ended on a failure the handler is still relaying, both
\* coroutines are running and the relay has closed or cancelled nothing;
\* and the relay has closed a connection or cancelled a coroutine only if a
\* coroutine had already terminated.
C14_IdleTolerance ==
    (openai_ws = "conn" /\ exc.kind # "CancelledError") =>
        /\ (clientState = "open" /\ upstreamPeer = "open"
              /\ c2oEnd = NoExc /\ o2cEnd = NoExc) =>
              /\ pc = "relay"
              /\ c2oPc \in {"recv", "send"}
              /\ o2cPc \in {"recv", "send"}
              /\ ~RelayClosedOrCancelled
        /\ RelayClosedOrCancelled => (c2oPc = "done" \/ o2cPc = "done")

\* Both peers are connected and silent after all their frames have been
\* relayed: both coroutines wait in their reads and nothing is closed.
C14_Witness ==
    /\ pc = "relay"
    /\ clientState = "open" /\ upstreamPeer = "open"
    /\ Len(upstreamRecv) = MaxFrames /\ Len(clientRecv) = MaxFrames
    /\ c2oPc = "recv" /\ o2cPc = "recv"
    /\ ~RelayClosedOrCancelled

\* A forwarding coroutine that is not running: never started, returned or
\* cancelled.
Stopped(p) == p \in {"idle", "done", "cancelled"}

\* C16 (no write after close): once the relay has issued a close on either
\* connection, both forwarding coroutines are stopped, so none holds a
\* frame it is about to write; and no step after such a close writes a
\* frame to either connection or moves a coroutine.
C16_NoWriteAfterClose ==
    [][(Len(upstreamCloses') > 0 \/ Len(clientCloses') > 0) =>
          /\ Stopped(c2oPc') /\ Stopped(o2cPc')
          /\ (Len(upstreamCloses) > 0 \/ Len(clientCloses) > 0) =>
                /\ upstreamRecv' = upstreamRecv
                /\ clientRecv' = clientRecv
                /\ c2oPc' = c2oPc
                /\ o2cPc' = o2cPc]_vars

\* The relay has written frames in both directions and then closed the
\* upstream connection, the close taking effect.
C16_Witness ==
    /\ Len(upstreamRecv) > 0
    /\ Len(clientRecv) > 0
    /\ Len(upstreamCloses) = 2
    /\ upstreamCloses[1].effective
    /\ ~upstreamCloses[2].effective

\* C15 (direction independence under backpressure): while one coroutine is
\* suspended in a write its destination does not take, that coroutine takes
\* no step (it reads nothing further), and the other coroutine can take its
\* next step whenever its own source has a frame or its own destination
\* takes the write.
C15_DirectionIndependence ==
    /\ (pc = "relay" /\ C2OWriteBlocked) =>
          /\ ~ENABLED C2OSend
          /\ ~ENABLED C2ORecv
          /\ (o2cPc = "recv" /\ upstreamRead < Len(upstreamSent)) => ENABLED O2CRecv
          /\ (o2cPc = "send" /\ ~O2CWriteBlocked) => ENABLED O2CSend
    /\ (pc = "relay" /\ O2CWriteBlocked) =>
          /\ ~ENABLED O2CSend
          /\ ~ENABLED O2CRecv
          /\ (c2oPc = "recv" /\ clientRead < Len(clientSent)) => ENABLED C2ORecv
          /\ (c2oPc = "send" /\ ~C2OWriteBlocked) => ENABLED C2OSend

\* The client-to-upstream write of the first client frame is still blocked,
\* the second client frame is unread, and meanwhile two upstream frames
\* have been delivered to the client.
C15_Witness ==
    /\ pc = "relay"
    /\ C2OWriteBlocked
    /\ clientRead = 1
    /\ Len(clientSent) = 2
    /\ upstreamRecv = <<>>
    /\ Len(clientRecv) = 2
====
